---- MODULE Spec2Model ----
(***************************************************************************)
(* Sirius Audio Lab (sirius_audio_lab.py): the block-wise pitch pipeline   *)
(* of SiriusAudioLab, its analysis state, the GUI handlers that read it    *)
(* and the recording sink.                                                 *)
(*                                                                         *)
(* Two threads run the program.  The audio thread (sounddevice's stream)   *)
(* runs audio_callback once per captured block.  The GUI thread (Tk's      *)
(* main loop) runs one handler at a time: update_gui, queued by            *)
(* root.after(0, ...) at the end of each callback, and toggle_recording,   *)
(* the record button's command.  No lock is taken anywhere, so the         *)
(* statements of a callback interleave with the statements of a handler.   *)
(*                                                                         *)
(* Numbers.  Frequencies are exact rationals held in units of              *)
(* 1/FreqScale Hz: bin k of an n-sample block is k * sample_rate / n Hz,   *)
(* which is a whole number of units for the block lengths used here.       *)
(* Portal strength 1 - d/50 is held in units of 1/StrengthOne.  Sample     *)
(* amplitudes are held in thousandths.                                     *)
(***************************************************************************)
EXTENDS Integers, Sequences, FiniteSets, TLC

----------------------------------------------------------------------------
(* Configuration set in __init__ and the literals of the analysis code.    *)

sample_rate == 44100
blocksize == 1024
HistoryMaxLen == 100
portal_freqs == <<432, 528, 639, 741, 852>>
portal_names == <<"Heart", "DNA Repair", "Connection", "Awakening", "Spiritual">>

\* np.max(np.abs(audio_chunk)) < 0.01, in thousandths
GateThreshold == 10
\* int(50 * len(freqs) / (self.sample_rate / 2)): the 50 Hz cutoff
CutoffHz == 50
\* if freq < 50: return "Silence"
NoteMinHz == 50
\* 1 - min_diff / 50
FalloffHz == 50

\* sample_rate / blocksize = 11025 / 256: every bin frequency of a block of
\* blocksize samples (or of half as many) is a multiple of 1/256 Hz.
FreqScale == blocksize \div 4
Hz(n) == n * FreqScale
StrengthOne == FalloffHz * FreqScale

Abs(x) == IF x < 0 THEN -x ELSE x
Min2(a, b) == IF a < b THEN a ELSE b
Max2(a, b) == IF a > b THEN a ELSE b
Range(s) == {s[i] : i \in DOMAIN s}

----------------------------------------------------------------------------
(* analyze_frequency.  A chunk is [id, len, peak, spectrum]: len samples,  *)
(* peak = max |sample| in thousandths, and spectrum = what                 *)
(* np.abs(np.fft.rfft(chunk * hanning)) returns for it, given sparsely as  *)
(* <<bin, magnitude>> pairs (magnitude > 0); every other bin is 0.         *)

\* magnitudes[k]
Magnitude(chunk, k) ==
    LET hits == {i \in DOMAIN chunk.spectrum : chunk.spectrum[i][1] = k}
    IN  IF hits = {} THEN 0 ELSE chunk.spectrum[CHOOSE i \in hits : TRUE][2]

\* freqs[k] of np.fft.rfftfreq(n, 1 / sample_rate) = k * sample_rate / n, in
\* units of 1/FreqScale Hz (a whole number of them when n divides
\* sample_rate * FreqScale, as blocksize and blocksize / 2 do)
rfftfreq(n, k) == k * ((sample_rate * FreqScale) \div n)

\* np.argmax(magnitudes[lo:]) + lo over bins lo..hi: the first index of the
\* maximum.  Only lo and the listed bins can be that index, every other bin
\* holding 0 and coming after lo.
argmax(chunk, lo, hi) ==
    LET cand == {lo} \cup {chunk.spectrum[i][1] : i \in DOMAIN chunk.spectrum}
        inr  == {k \in cand : lo <= k /\ k <= hi}
    IN  CHOOSE k \in inr :
            \A j \in inr : Magnitude(chunk, j) < Magnitude(chunk, k)
                           \/ (Magnitude(chunk, j) = Magnitude(chunk, k) /\ k <= j)

\* len(freqs) = len(windowed) // 2 + 1
len_freqs(chunk) == chunk.len \div 2 + 1

\* min_freq_idx = int(50 * len(freqs) / (self.sample_rate / 2))
min_freq_idx(chunk) == (CutoffHz * len_freqs(chunk)) \div (sample_rate \div 2)

\* faulty variant: analyze_frequency without the amplitude gate of line 152
analyze_frequency_nogate(chunk) ==
    IF len_freqs(chunk) - min_freq_idx(chunk) > 0
    THEN rfftfreq(chunk.len, argmax(chunk, min_freq_idx(chunk), len_freqs(chunk) - 1))
    ELSE 0

analyze_frequency(chunk) ==
    IF chunk.peak < GateThreshold
    THEN 0
    ELSE IF len_freqs(chunk) - min_freq_idx(chunk) > 0
         THEN rfftfreq(chunk.len,
                       argmax(chunk, min_freq_idx(chunk), len_freqs(chunk) - 1))
         ELSE 0

----------------------------------------------------------------------------
(* freq_to_note.  round(12 * log2(freq / 440) + 69) = m exactly when       *)
(* 440 * 2^((m - 69.5)/12) <= freq < 440 * 2^((m - 68.5)/12); the bounds   *)
(* are irrational, so no frequency of the model sits on one.               *)
(* NoteLowerBound[i] is the least frequency, in units of 1/FreqScale Hz,   *)
(* whose rounded note number is 30 + i (i = 1 is note 31, 107 is 137).     *)

NoteLowerBound ==
    << 12187, 12912, 13680, 14493, 15355, 16268, 17235, 18260,
       19346, 20496, 21715, 23006, 24374, 25823, 27359, 28986,
       30709, 32535, 34470, 36520, 38691, 40992, 43429, 46012,
       48748, 51646, 54717, 57971, 61418, 65070, 68939, 73039,
       77382, 81983, 86858, 92023, 97495, 103292, 109434, 115941,
       122835, 130139, 137878, 146077, 154763, 163965, 173715, 184045,
       194989, 206583, 218867, 231882, 245670, 260278, 275755, 292153,
       309525, 327930, 347430, 368089, 389977, 413166, 437734, 463763,
       491340, 520556, 551510, 584305, 619049, 655860, 694859, 736177,
       779953, 826331, 875467, 927525, 982679, 1041112, 1103020, 1168609,
       1238098, 1311719, 1389718, 1472354, 1559905, 1652662, 1750934, 1855050,
       1965357, 2082223, 2206039, 2337217, 2476195, 2623437, 2779435, 2944708,
       3119810, 3305323, 3501868, 3710100, 3930714, 4164446, 4412077, 4674433,
       4952389, 5246873, 5558869 >>

note_names == <<"C", "C#", "D", "D#", "E", "F", "F#", "G", "G#", "A", "A#", "B">>

\* int(round(n)) for n = 12 * np.log2(freq / A4) + 69, freq >= 50 Hz
round_n(freq) == 30 + Cardinality({i \in DOMAIN NoteLowerBound : NoteLowerBound[i] <= freq})

freq_to_note(freq) ==
    IF freq < Hz(NoteMinHz)
    THEN "Silence"
    ELSE note_names[(round_n(freq) % 12) + 1] \o ToString(round_n(freq) \div 12 - 1)

----------------------------------------------------------------------------
(* calculate_portal_strength, and the closest portal of update_gui.        *)

\* [abs(freq - pf) for pf in self.portal_freqs]
portal_diffs(freq) == [i \in DOMAIN portal_freqs |-> Abs(freq - Hz(portal_freqs[i]))]

\* min(...) of a non-empty list
min_of(s) == CHOOSE v \in Range(s) : \A w \in Range(s) : v <= w

\* int(np.argmin(...)): the first index of the minimum (1-based here)
argmin(s) == CHOOSE i \in DOMAIN s : /\ \A j \in DOMAIN s : s[i] <= s[j]
                                     /\ \A j \in DOMAIN s : j < i => s[j] > s[i]

\* faulty variant: line 186 without max(0.0, ...)
calculate_portal_strength_noclip(freq) ==
    IF freq = 0 THEN 0 ELSE StrengthOne - min_of(portal_diffs(freq))

\* faulty variant: line 185 measuring the distance to the first portal only
calculate_portal_strength_first(freq) ==
    IF freq = 0 THEN 0 ELSE Max2(0, StrengthOne - portal_diffs(freq)[1])

\* max(0.0, 1 - min_diff / 50), in units of 1/StrengthOne
calculate_portal_strength(freq) ==
    IF freq = 0
    THEN 0
    ELSE Max2(0, StrengthOne - min_of(portal_diffs(freq)))

----------------------------------------------------------------------------
(* The format specifications of update_gui: round to nearest, ties to even *)
(* (Python formats the exact value of the float).                          *)

round_div(a, b) ==
    LET q == a \div b
        r == a % b
    IN  IF 2 * r > b \/ (2 * r = b /\ q % 2 = 1) THEN q + 1 ELSE q

\* f"{freq:.1f}": tenths of a Hz
fmt_1f(freq) == round_div(freq * 10, FreqScale)
\* f"{strength:.2f}": hundredths
fmt_2f(strength) == round_div(strength * 100, StrengthOne)

----------------------------------------------------------------------------
(* Bounds of the model, and the blocks it delivers.                        *)

\* blocks delivered under Spec and under SpecScore
MaxBlocks == 2
\* presses of the record button
MaxToggles == 2
\* blocks delivered under SpecStream beyond the history's capacity
MaxExtra == 3
\* length of the block pattern a stream repeats under SpecStream
PatternLen == 2

\* DC offset strongest, then two equal peaks at bins 10 and 20
SpectrumTone == << <<0, 9>>, <<10, 5>>, <<20, 5>> >>
\* mains-like hum in bin 1 only
SpectrumHum == << <<1, 9>> >>
\* one peak at bin 6
SpectrumPeak == << <<6, 7>> >>

\* The kinds of block the capture side delivers: a quiet block, a loud hum,
\* a loud tone, and a loud block of half the configured length.
AudioChunks ==
    { [len |-> blocksize, peak |-> 5, spectrum |-> SpectrumTone],
      [len |-> blocksize, peak |-> 500, spectrum |-> SpectrumHum],
      [len |-> blocksize, peak |-> 500, spectrum |-> SpectrumTone],
      [len |-> blocksize \div 2, peak |-> 500, spectrum |-> SpectrumPeak] }

\* Frequencies handed to the scoring path under SpecScore
ScoreFreqs == {Hz(0), Hz(432), Hz(457), Hz(482), Hz(480), Hz(528), Hz(600)}

----------------------------------------------------------------------------
VARIABLES
    \* SiriusAudioLab's fields
    recording, audio_data, file_counter,
    current_freq, current_note, portal_strength, freq_history,
    \* widgets written by the GUI handlers
    freq_label, note_label, portal_label, portal_text, record_btn,
    \* files written by sf.write: <<[counter, data]>>
    files,
    \* identity of the list object self.audio_data is bound to
    list_gen,
    \* update_gui calls queued by root.after and not yet started
    pending,
    \* audio thread: position in audio_callback and its locals
    a_pc, a_chunk, a_freq, a_list,
    \* GUI thread: position in the running handler and its locals
    g_pc, g_diffs, g_freq,
    \* capture side: blocks delivered, button presses, the stream's pattern
    nblocks, ntoggles, pattern,
    \* history variables: the frequency analysed for each block in arrival
    \* order; the recording session (count of enabling toggles); what each
    \* session flushed; the blocks appended, with the session whose flag
    \* their callback observed (a_session: the one the running callback saw)
    arrived, session, flushed, captured, a_session

state_vars == <<recording, audio_data, file_counter, current_freq, current_note,
                portal_strength, freq_history, files, list_gen, pending>>
widget_vars == <<freq_label, note_label, portal_label, portal_text, record_btn>>
audio_vars == <<a_pc, a_chunk, a_freq, a_list>>
gui_vars == <<g_pc, g_diffs, g_freq>>
env_vars == <<nblocks, ntoggles, pattern>>
hist_vars == <<arrived, session, flushed, captured, a_session>>
vars == <<state_vars, widget_vars, audio_vars, gui_vars, env_vars, hist_vars>>

analysis_fields == <<current_freq, current_note, portal_strength, freq_history>>

\* __init__ and setup_gui; no block delivered yet
InitFields ==
    /\ recording = FALSE
    /\ audio_data = <<>>
    /\ file_counter = 1
    /\ current_freq = 0
    /\ current_note = "Silence"
    /\ portal_strength = 0
    /\ freq_history = <<>>
    /\ freq_label = 0
    /\ note_label = "Silence"
    /\ portal_label = <<"None">>
    /\ portal_text = <<0, "Silence">>
    /\ record_btn = "Start Recording"
    /\ files = <<>>
    /\ list_gen = 0
    /\ pending = 0
    /\ a_pc = "idle"
    /\ a_chunk = [id |-> 0, len |-> blocksize, peak |-> 0, spectrum |-> <<>>]
    /\ a_freq = 0
    /\ a_list = 0
    /\ g_pc = "idle"
    /\ g_diffs = <<>>
    /\ g_freq = 0
    /\ nblocks = 0
    /\ ntoggles = 0
    /\ arrived = <<>>
    /\ session = 0
    /\ flushed = <<>>
    /\ captured = {}
    /\ a_session = 0

Init == InitFields /\ pattern = <<>>

----------------------------------------------------------------------------
(* audio_callback, on the audio thread, one statement per step.            *)

\* faulty variant: a history with no maxlen
deque_append_unbounded(h, f) == Append(h, f)

\* deque(maxlen=HistoryMaxLen).append: the oldest entry leaves at capacity
deque_append(h, f) ==
    IF Len(h) >= HistoryMaxLen THEN Append(Tail(h), f) ELSE Append(h, f)

\* lines 134-139: the stream hands over block c; audio_chunk = indata[:, 0];
\* freq = self.analyze_frequency(audio_chunk)
audio_callback_begin(c) ==
    /\ a_pc = "idle"
    /\ a_chunk' = [id |-> nblocks + 1, len |-> c.len, peak |-> c.peak,
                   spectrum |-> c.spectrum]
    /\ a_freq' = analyze_frequency(a_chunk')
    /\ arrived' = Append(arrived, a_freq')
    /\ nblocks' = nblocks + 1
    /\ a_pc' = "set_freq"
    /\ UNCHANGED <<state_vars, widget_vars, a_list, gui_vars, ntoggles, pattern,
                   session, flushed, captured, a_session>>

\* line 141: self.current_freq = freq
audio_callback_set_freq ==
    /\ a_pc = "set_freq"
    /\ current_freq' = a_freq
    /\ a_pc' = "set_note"
    /\ UNCHANGED <<recording, audio_data, file_counter, current_note,
                   portal_strength, freq_history, files, list_gen, pending,
                   widget_vars, a_chunk, a_freq, a_list, gui_vars, env_vars,
                   hist_vars>>

\* line 142: self.current_note = self.freq_to_note(freq)
audio_callback_set_note ==
    /\ a_pc = "set_note"
    /\ current_note' = freq_to_note(a_freq)
    /\ a_pc' = "set_strength"
    /\ UNCHANGED <<recording, audio_data, file_counter, current_freq,
                   portal_strength, freq_history, files, list_gen, pending,
                   widget_vars, a_chunk, a_freq, a_list, gui_vars, env_vars,
                   hist_vars>>

\* line 143: self.portal_strength = self.calculate_portal_strength(freq)
audio_callback_set_strength ==
    /\ a_pc = "set_strength"
    /\ portal_strength' = calculate_portal_strength(a_freq)
    /\ a_pc' = "append"
    /\ UNCHANGED <<recording, audio_data, file_counter, current_freq,
                   current_note, freq_history, files, list_gen, pending,
                   widget_vars, a_chunk, a_freq, a_list, gui_vars, env_vars,
                   hist_vars>>

\* faulty variant: line 144 appending detected pitches only
audio_callback_append_pitched ==
    /\ a_pc = "append"
    /\ freq_history' = IF a_freq = 0 THEN freq_history
                       ELSE deque_append(freq_history, a_freq)
    /\ a_pc' = "if_recording"
    /\ UNCHANGED <<recording, audio_data, file_counter, current_freq,
                   current_note, portal_strength, files, list_gen, pending,
                   widget_vars, a_chunk, a_freq, a_list, gui_vars, env_vars,
                   hist_vars>>

\* line 144: self.freq_history.append(freq)
audio_callback_append ==
    /\ a_pc = "append"
    /\ freq_history' = deque_append(freq_history, a_freq)
    /\ a_pc' = "if_recording"
    /\ UNCHANGED <<recording, audio_data, file_counter, current_freq,
                   current_note, portal_strength, files, list_gen, pending,
                   widget_vars, a_chunk, a_freq, a_list, gui_vars, env_vars,
                   hist_vars>>

\* line 146: if self.recording
audio_callback_if_recording ==
    /\ a_pc = "if_recording"
    /\ a_pc' = IF recording THEN "load_list" ELSE "schedule"
    /\ a_session' = IF recording THEN session ELSE a_session
    /\ UNCHANGED <<state_vars, widget_vars, a_chunk, a_freq, a_list, gui_vars,
                   env_vars, arrived, session, flushed, captured>>

\* line 147, first half: self.audio_data is evaluated to the list object the
\* field is bound to now; audio_chunk.tolist() is built next
audio_callback_load_list ==
    /\ a_pc = "load_list"
    /\ a_list' = list_gen
    /\ a_pc' = "extend"
    /\ UNCHANGED <<state_vars, widget_vars, a_chunk, a_freq, gui_vars, env_vars,
                   hist_vars>>

\* line 147, second half: .extend(...) on that list object.  When the field
\* has been rebound since (self.audio_data = []), the samples go to the list
\* nothing refers to any more.  A block's samples are held as the block's id.
audio_callback_extend ==
    /\ a_pc = "extend"
    /\ audio_data' = IF a_list = list_gen THEN Append(audio_data, a_chunk.id)
                      ELSE audio_data
    /\ captured' = captured \cup {<<a_chunk.id, a_session>>}
    /\ a_pc' = "schedule"
    /\ UNCHANGED <<recording, file_counter, current_freq, current_note,
                   portal_strength, freq_history, files, list_gen, pending,
                   widget_vars, a_chunk, a_freq, a_list, gui_vars, env_vars,
                   arrived, session, flushed, a_session>>

\* line 149: self.root.after(0, self.update_gui)
audio_callback_schedule ==
    /\ a_pc = "schedule"
    /\ pending' = pending + 1
    /\ a_pc' = "idle"
    /\ UNCHANGED <<recording, audio_data, file_counter, current_freq,
                   current_note, portal_strength, freq_history, files, list_gen,
                   widget_vars, a_chunk, a_freq, a_list, gui_vars, env_vars,
                   hist_vars>>

----------------------------------------------------------------------------
(* update_gui, on the GUI thread.  The labels are written by this thread   *)
(* only, so a read of a field and the label write that uses it are one     *)
(* step.  update_plots and draw_cube (lines 200-201) read current_freq,    *)
(* freq_history and portal_strength and draw; they write no field, and     *)
(* what they draw is not kept here.                                        *)

\* Tk runs a queued update_gui; line 189: freq_label <- current_freq
update_gui_freq_label ==
    /\ g_pc = "idle"
    /\ pending > 0
    /\ pending' = pending - 1
    /\ freq_label' = fmt_1f(current_freq)
    /\ g_pc' = "note_label"
    /\ UNCHANGED <<recording, audio_data, file_counter, current_freq,
                   current_note, portal_strength, freq_history, files, list_gen,
                   note_label, portal_label, portal_text, record_btn,
                   audio_vars, g_diffs, g_freq, env_vars, hist_vars>>

\* line 190: note_label <- current_note
update_gui_note_label ==
    /\ g_pc = "note_label"
    /\ note_label' = current_note
    /\ g_pc' = "if_freq"
    /\ UNCHANGED <<state_vars, freq_label, portal_label, portal_text, record_btn,
                   audio_vars, g_diffs, g_freq, env_vars, hist_vars>>

\* line 192: if self.current_freq > 0, else line 198: "Portal: None"
update_gui_if_freq ==
    /\ g_pc = "if_freq"
    /\ g_pc' = IF current_freq > 0 THEN "diffs" ELSE "portal_info"
    /\ portal_label' = IF current_freq > 0 THEN portal_label ELSE <<"None">>
    /\ g_diffs' = <<>>
    /\ UNCHANGED <<state_vars, freq_label, note_label, portal_text, record_btn,
                   audio_vars, g_freq, env_vars, hist_vars>>

\* line 193: one element of [abs(self.current_freq - pf) for pf in ...];
\* self.current_freq is read once per element
update_gui_diff ==
    /\ g_pc = "diffs"
    /\ Len(g_diffs) < Len(portal_freqs)
    /\ g_diffs' = Append(g_diffs,
                         Abs(current_freq - Hz(portal_freqs[Len(g_diffs) + 1])))
    /\ UNCHANGED <<state_vars, widget_vars, audio_vars, g_pc, g_freq, env_vars,
                   hist_vars>>

\* lines 193-196: closest_idx = argmin; strength = self.portal_strength;
\* portal_label <- name and strength
update_gui_portal_label ==
    /\ g_pc = "diffs"
    /\ Len(g_diffs) = Len(portal_freqs)
    /\ portal_label' = <<portal_names[argmin(g_diffs)], fmt_2f(portal_strength)>>
    /\ g_pc' = "portal_info"
    /\ UNCHANGED <<state_vars, freq_label, note_label, portal_text, record_btn,
                   audio_vars, g_diffs, g_freq, env_vars, hist_vars>>

\* lines 200-202, update_portal_info line 116: self.current_freq is read
update_gui_info_freq ==
    /\ g_pc = "portal_info"
    /\ g_freq' = current_freq
    /\ g_pc' = "portal_info_note"
    /\ UNCHANGED <<state_vars, widget_vars, audio_vars, g_diffs, env_vars,
                   hist_vars>>

\* line 116: self.current_note is read; lines 118-119: portal_text is rewritten
update_gui_info_note ==
    /\ g_pc = "portal_info_note"
    /\ portal_text' = <<fmt_1f(g_freq), current_note>>
    /\ g_pc' = "idle"
    /\ UNCHANGED <<state_vars, freq_label, note_label, portal_label, record_btn,
                   audio_vars, g_diffs, g_freq, env_vars, hist_vars>>

update_gui ==
    \/ update_gui_freq_label
    \/ update_gui_note_label
    \/ update_gui_if_freq
    \/ update_gui_diff
    \/ update_gui_portal_label
    \/ update_gui_info_freq
    \/ update_gui_info_note

----------------------------------------------------------------------------
(* toggle_recording and save_recording, on the GUI thread.                 *)

\* the record button is pressed; line 314: self.recording = not self.recording
toggle_recording_flip ==
    /\ g_pc = "idle"
    /\ recording' = ~recording
    /\ session' = IF recording THEN session ELSE session + 1
    /\ ntoggles' = ntoggles + 1
    /\ g_pc' = IF recording THEN "stop" ELSE "start"
    /\ UNCHANGED <<audio_data, file_counter, current_freq, current_note,
                   portal_strength, freq_history, files, list_gen, pending,
                   widget_vars, audio_vars, g_diffs, g_freq, nblocks, pattern,
                   arrived, flushed, captured, a_session>>

\* lines 317-319: the button's text; self.audio_data = [] (a new list object)
toggle_recording_start ==
    /\ g_pc = "start"
    /\ record_btn' = "Stop Recording"
    /\ audio_data' = <<>>
    /\ list_gen' = list_gen + 1
    /\ g_pc' = "idle"
    /\ UNCHANGED <<recording, file_counter, current_freq, current_note,
                   portal_strength, freq_history, files, pending, freq_label,
                   note_label, portal_label, portal_text, audio_vars, g_diffs,
                   g_freq, env_vars, hist_vars>>

\* line 321: the button's text; line 322 calls save_recording, whose line 326
\* tests self.audio_data: an empty accumulator writes no file
toggle_recording_stop ==
    /\ g_pc = "stop"
    /\ record_btn' = "Start Recording"
    /\ g_pc' = IF audio_data # <<>> THEN "save" ELSE "idle"
    /\ flushed' = IF audio_data # <<>> THEN flushed ELSE Append(flushed, <<>>)
    /\ UNCHANGED <<state_vars, freq_label, note_label, portal_label, portal_text,
                   audio_vars, g_diffs, g_freq, env_vars, arrived, session,
                   captured, a_session>>

\* faulty variant: save_recording emptying the accumulator after the write
save_recording_and_reset ==
    /\ g_pc = "save"
    /\ files' = Append(files, [counter |-> file_counter, data |-> audio_data])
    /\ flushed' = Append(flushed, audio_data)
    /\ file_counter' = file_counter + 1
    /\ audio_data' = <<>>
    /\ g_pc' = "idle"
    /\ UNCHANGED <<recording, current_freq, current_note,
                   portal_strength, freq_history, list_gen, pending, widget_vars,
                   audio_vars, g_diffs, g_freq, env_vars, arrived, session,
                   captured, a_session>>

\* lines 327-331: np.array(self.audio_data) is written to
\* sirius_audio_<file_counter>.wav; self.file_counter += 1
save_recording ==
    /\ g_pc = "save"
    /\ files' = Append(files, [counter |-> file_counter, data |-> audio_data])
    /\ flushed' = Append(flushed, audio_data)
    /\ file_counter' = file_counter + 1
    /\ g_pc' = "idle"
    /\ UNCHANGED <<recording, audio_data, current_freq, current_note,
                   portal_strength, freq_history, list_gen, pending, widget_vars,
                   audio_vars, g_diffs, g_freq, env_vars, arrived, session,
                   captured, a_session>>

toggle_recording ==
    \/ toggle_recording_start
    \/ toggle_recording_stop
    \/ save_recording

----------------------------------------------------------------------------
(* The program: the stream delivers any block, the user presses the record *)
(* button at any time, and the two threads interleave statement by         *)
(* statement.                                                              *)

audio_callback ==
    \/ audio_callback_set_freq
    \/ audio_callback_set_note
    \/ audio_callback_set_strength
    \/ audio_callback_append
    \/ audio_callback_if_recording
    \/ audio_callback_schedule

audio_callback_record ==
    \/ audio_callback_load_list
    \/ audio_callback_extend

Deliver == nblocks < MaxBlocks /\ \E c \in AudioChunks : audio_callback_begin(c)

Press == ntoggles < MaxToggles /\ toggle_recording_flip

AudioNext == Deliver \/ audio_callback \/ audio_callback_record

GuiNext == update_gui \/ Press \/ toggle_recording

Next == AudioNext \/ GuiNext

Spec == Init /\ [][Next]_vars

----------------------------------------------------------------------------
(* A capture session on its own: the stream repeats a pattern of blocks    *)
(* fixed at the start, long enough to fill the history and run past its    *)
(* capacity; nothing is recorded.                                          *)

Patterns == [1..PatternLen -> AudioChunks]

InitStream == InitFields /\ pattern \in Patterns

StreamDeliver ==
    /\ nblocks < HistoryMaxLen + MaxExtra
    /\ audio_callback_begin(pattern[(nblocks % Len(pattern)) + 1])

StreamNext == StreamDeliver \/ audio_callback

SpecStream == InitStream /\ [][StreamNext]_vars

----------------------------------------------------------------------------
(* The scoring path on chosen frequencies: lines 141-149 of a callback     *)
(* whose analysis returned f, followed by update_gui.                      *)

\* lines 134-139 with analyze_frequency's result given
score_begin(f) ==
    /\ a_pc = "idle"
    /\ a_chunk' = [a_chunk EXCEPT !.id = nblocks + 1]
    /\ a_freq' = f
    /\ arrived' = Append(arrived, f)
    /\ nblocks' = nblocks + 1
    /\ a_pc' = "set_freq"
    /\ UNCHANGED <<state_vars, widget_vars, a_list, gui_vars, ntoggles, pattern,
                   session, flushed, captured, a_session>>

ScoreDeliver == nblocks < MaxBlocks /\ \E f \in ScoreFreqs : score_begin(f)

ScoreNext == ScoreDeliver \/ audio_callback \/ update_gui

SpecScore == Init /\ [][ScoreNext]_vars

----------------------------------------------------------------------------
(* The program with the record button left alone: capture and display.     *)

ViewNext == Deliver \/ audio_callback \/ update_gui

SpecView == Init /\ [][ViewNext]_vars

----------------------------------------------------------------------------
(* The recording path: capture and the record button, the queued           *)
(* update_gui calls left waiting (they touch no field of the recording).   *)

RecordNext == AudioNext \/ Press \/ toggle_recording

SpecRecord == Init /\ [][RecordNext]_vars

----------------------------------------------------------------------------
(* Properties.                                                             *)

\* What update_gui shows for one completed update whose frequency is f
Display(f) ==
    << fmt_1f(f),
       freq_to_note(f),
       IF f > 0
       THEN <<portal_names[argmin(portal_diffs(f))],
              fmt_2f(calculate_portal_strength(f))>>
       ELSE <<"None">> >>

\* The frequencies of the updates so far, the initial record (0) included
Updates == {0} \cup Range(arrived)

\* C1: whenever no update_gui is part-way through, the frequency, note and
\* portal (closest label and strength) it left on the labels, and the
\* frequency and note it left in the portal text, all come from one and the
\* same update: never a mix of two.
C1_NoTornRead ==
    g_pc \in {"idle", "start", "stop", "save"} =>
        /\ \E f \in Updates : <<freq_label, note_label, portal_label>> = Display(f)
        /\ \E f \in Updates : portal_text = <<fmt_1f(f), freq_to_note(f)>>

\* The history is the last HistoryMaxLen of the first n arrivals, in order
LastArrivals(n) == SubSeq(arrived, Max2(1, n - HistoryMaxLen + 1), n)

\* C2: freq_history never holds more than HistoryMaxLen entries, and once a
\* callback has finished it holds exactly the frequencies of the last
\* HistoryMaxLen blocks (all of them when fewer have arrived) in arrival
\* order, oldest first.
C2_HistoryIsLastH ==
    /\ Len(freq_history) <= HistoryMaxLen
    /\ a_pc = "idle" => freq_history = LastArrivals(nblocks)

C2_Witness ==
    /\ a_pc = "idle"
    /\ nblocks = HistoryMaxLen + 2
    /\ Len(freq_history) = HistoryMaxLen
    /\ arrived[1] # arrived[2]
    /\ freq_history[1] = arrived[3]

\* C3: while the block in hand is not blocksize samples long, no step changes
\* current_freq, current_note, portal_strength or freq_history: the block is
\* rejected and the analysis state is as it was before the call.
C3_WrongLengthRejected ==
    [][a_chunk.len # blocksize => UNCHANGED analysis_fields]_vars

\* C4: every block whose callback saw the recording flag set and appended its
\* samples is in the accumulator of that recording session until the session
\* is flushed, and in what the session flushed from then on.
C4_ObservedBlocksFlushed ==
    \A c \in captured :
        IF c[2] <= Len(flushed)
        THEN c[1] \in Range(flushed[c[2]])
        ELSE c[2] = session /\ c[1] \in Range(audio_data)

\* C5: for a block of blocksize samples that passes the gate, every bin from
\* min_freq_idx on lies at 50 Hz or above, and the frequency returned is 0
\* or at least 50 Hz.
C5_NoBinBelowCutoff ==
    (nblocks > 0 /\ a_chunk.len = blocksize) =>
        /\ a_chunk.peak >= GateThreshold =>
               \A k \in min_freq_idx(a_chunk)..(len_freqs(a_chunk) - 1) :
                   rfftfreq(a_chunk.len, k) >= Hz(CutoffHz)
        /\ a_freq = 0 \/ a_freq >= Hz(CutoffHz)

\* Both threads at rest and every queued update_gui run: the labels show the
\* current fields
Settled == a_pc = "idle" /\ g_pc = "idle" /\ pending = 0 /\ nblocks > 0

\* C6 as stated: 432 Hz scores 1.0 at Heart, 457 Hz scores 0.5 at Heart and
\* 482 Hz scores 0.0 at the nearer of Heart and DNA Repair.
C6_AsStated ==
    Settled =>
        /\ current_freq = Hz(432) =>
               portal_strength = StrengthOne /\ portal_label[1] = "Heart"
        /\ current_freq = Hz(457) =>
               2 * portal_strength = StrengthOne /\ portal_label[1] = "Heart"
        /\ current_freq = Hz(482) =>
               portal_strength = 0 /\ portal_label[1] = "DNA Repair"

\* C6, amended: 432 Hz scores 1.0 at Heart, 457 Hz scores 0.5 at Heart, and
\* 482 Hz, 46 Hz from 528, scores 1 - 46/50 = 0.08 at DNA Repair.
C6_PortalScores ==
    Settled =>
        /\ current_freq = Hz(432) =>
               portal_strength = StrengthOne /\ portal_label = <<"Heart", 100>>
        /\ current_freq = Hz(457) =>
               2 * portal_strength = StrengthOne /\ portal_label = <<"Heart", 50>>
        /\ current_freq = Hz(482) =>
               /\ 100 * portal_strength = 8 * StrengthOne
               /\ portal_label = <<"DNA Repair", 8>>

C6_Witness ==
    /\ Settled
    /\ current_freq = Hz(482)
    /\ portal_label = <<"DNA Repair", 8>>
    /\ Hz(432) \in Range(arrived)

\* C7 as stated: the step that completes a disabling toggle leaves the
\* accumulator empty.
C7_AsStated ==
    [][(g_pc \in {"stop", "save"} /\ g_pc' = "idle") => audio_data' = <<>>]_vars

\* C7, amended: the disabling toggle writes a non-empty accumulator to a file
\* and does not reset it: its steps leave audio_data as it is, so that once
\* the toggle is over the accumulator still starts with what was flushed.  The
\* accumulator is emptied by the enabling toggle.
C7_FlushKeepsAccumulator ==
    /\ [][/\ (g_pc = "stop" /\ g_pc' # "stop") => audio_data' = audio_data
          /\ (g_pc = "save" /\ g_pc' = "idle") =>
                 /\ audio_data' = audio_data
                 /\ files' = Append(files, [counter |-> file_counter,
                                            data |-> audio_data])
          /\ (g_pc = "start" /\ g_pc' = "idle") => audio_data' = <<>>]_vars
    /\ []((g_pc = "idle" /\ ~recording /\ session > 0) =>
              /\ Len(flushed) = session
              /\ Len(audio_data) >= Len(flushed[session])
              /\ SubSeq(audio_data, 1, Len(flushed[session])) = flushed[session])

C7_Witness ==
    /\ g_pc = "idle"
    /\ ~recording
    /\ files # <<>>
    /\ audio_data # <<>>
    /\ audio_data = files[Len(files)].data

\* C8: a block whose peak is under the gate (any kind of block, any peak
\* under the gate) is analysed to 0 whatever its spectrum holds, 0 maps to
\* "Silence", and after its callback current_freq is 0, current_note is
\* "Silence" and portal_strength is 0.
C8_SilentBlock ==
    /\ \A c \in AudioChunks, p \in 0..(GateThreshold - 1) :
           analyze_frequency([c EXCEPT !.peak = p]) = 0
    /\ (nblocks > 0 /\ a_chunk.peak < GateThreshold) =>
           /\ a_freq = 0
           /\ freq_to_note(a_freq) = "Silence"
           /\ a_pc = "idle" =>
                  current_freq = 0 /\ current_note = "Silence" /\ portal_strength = 0

C8_Witness ==
    /\ a_pc = "idle"
    /\ a_chunk.peak < GateThreshold
    /\ a_chunk.spectrum # <<>>
    /\ nblocks >= 2
    /\ arrived[nblocks - 1] > 0
    /\ current_note = "Silence"

\* C9: from the initial record (0, "Silence", 0, no history) on, in every
\* state: portal_strength is in [0, 1], current_freq and every history entry
\* are >= 0, and the history holds at most HistoryMaxLen entries.
C9_StateBounds ==
    /\ nblocks = 0 =>
           /\ current_freq = 0 /\ current_note = "Silence"
           /\ portal_strength = 0 /\ freq_history = <<>>
    /\ 0 <= portal_strength /\ portal_strength <= StrengthOne
    /\ current_freq >= 0
    /\ \A i \in DOMAIN freq_history : freq_history[i] >= 0
    /\ Len(freq_history) <= HistoryMaxLen

C9_Witness ==
    /\ nblocks > HistoryMaxLen
    /\ Len(freq_history) = HistoryMaxLen
    /\ 0 < portal_strength /\ portal_strength < StrengthOne
    /\ \E i \in DOMAIN freq_history : calculate_portal_strength(freq_history[i]) = 0
                                      /\ freq_history[i] > 0

\* C10: each callback appends one history entry and overwrites the three
\* current fields, so that between callbacks current_freq is the newest
\* history entry and the note and strength are those of current_freq; and no
\* step of update_gui changes any of the four fields.
C10_OneUpdatePerBlock ==
    /\ []((a_pc = "idle" /\ freq_history # <<>>) =>
              /\ Len(freq_history) = Min2(nblocks, HistoryMaxLen)
              /\ current_freq = freq_history[Len(freq_history)]
              /\ current_note = freq_to_note(current_freq)
              /\ portal_strength = calculate_portal_strength(current_freq))
    /\ [](a_pc = "idle" => Len(freq_history) = Min2(nblocks, HistoryMaxLen))
    /\ [][gui_vars' # gui_vars => UNCHANGED analysis_fields]_vars

C10_Witness ==
    /\ a_pc = "idle"
    /\ Len(freq_history) = 2
    /\ current_freq > 0
    /\ freq_history[1] # current_freq
    /\ g_pc = "idle"
    /\ pending = 0
    /\ freq_label = fmt_1f(current_freq)

====
